---- MODULE Spec2Model ----
(***************************************************************************)
(* Ledger of the banking application: models/account.py and                *)
(* models/transaction.py running against one SQLite database file.         *)
(*                                                                         *)
(* Every handler opens its own sqlite3 connection.  A SELECT sees the      *)
(* committed database.  The first INSERT/UPDATE of a connection opens a    *)
(* transaction and takes the database write lock; the writes stay private  *)
(* to the connection until conn.commit(), and conn.close() without a       *)
(* commit rolls them back.                                                 *)
(***************************************************************************)
EXTENDS Integers, Sequences, FiniteSets, TLC

\* ---- bounds ----
\* calls that may pass their checks in a run of concurrent callers
MaxTxns == 2
\* the same for a run of one call at a time, with its initial balances and
\* its amounts
SeqMaxTxns == 1
MaxBal == 1
MaxAmt == 1

\* request handlers that may run at the same time
Callers == {"c1", "c2"}
NoCaller == "nobody"
\* account ids a request can carry; the accounts table holds some of them
Ids == {"A", "B", "C"}
NoAccount == "null"
\* amounts a request can carry: 0 is refused, the others are valid
Amounts == 0..MaxAmt
UnitAmounts == {0, 1}

TxnTypes == {"deposit", "withdrawal", "transfer"}

VARIABLES
    accounts,   \* accounts table (committed): id of each row -> [balance, status]
    txns,       \* transactions table (committed), in commit order
    initial,    \* balance each account was created with
    lock,       \* connection holding the database write lock
    pc,         \* position of each caller in its handler
    op,         \* the call a caller is executing
    from_account, \* create_transfer's from_account while to_account is being read
    pendTxn,    \* uncommitted INSERTs of the caller's connection
    pendBal,    \* uncommitted balance UPDATEs of the caller's connection
    result,     \* outcome the handler returns or raises
    review,     \* the fraud analyst's request (routes/fraud_dashboard.py)
    reader,     \* a read-only computation in progress and what it has read
    report,     \* the result the read-only computation returned
    seen        \* committed stores that existed while the computation ran

vars == <<accounts, txns, initial, lock, pc, op, from_account,
          pendTxn, pendBal, result, review, reader, report, seen>>

\* state of the analyst's request and of the read-only computation
aside == <<review, reader, report>>

\* ---- values ----
NoRow == [found |-> FALSE, balance |-> 0, status |-> "none"]
NoOp == [type |-> "none", account_id |-> NoAccount, target_account_id |-> NoAccount,
         amount |-> 0]
NoDelta == [a \in Ids |-> 0]

Rejections == {"InvalidAmount", "AccountNotFound", "AccountInactive",
               "InsufficientBalance", "SameAccountTransfer"}

\* a transaction id is the position of its row in the transactions table; this
\* id names no row
NoTxn == 0
\* routes of routes/fraud_dashboard.py that flag or unflag a transaction
FlagRoutes == {"flag_transaction", "unflag_transaction", "action"}
NoReview == [route |-> "none", transaction_id |-> NoTxn, pc |-> "idle", outcome |-> "none"]
NoReader == [kind |-> "none", pc |-> "idle"]
NoReport == [kind |-> "none"]

\* the committed stores a running read-only computation could have read: the
\* store is added at every commit while a computation runs
observe(stores, accts, rows) ==
    IF reader.pc \in {"idle", "done"} THEN stores
    ELSE stores \cup {[accounts |-> accts, txns |-> rows]}

\* ---- models/account.py ----
\* Account.get_by_id: SELECT on a fresh connection; None when no row matches
get_by_id(accts, id) ==
    IF id \in DOMAIN accts
    THEN [found |-> TRUE, balance |-> accts[id].balance, status |-> accts[id].status]
    ELSE NoRow

\* variant: only a closed account counts as inactive
is_active_not_closed(account) == account.status # "closed"

\* Account.is_active
is_active(account) == account.status = "active"

\* UPDATE accounts SET status = ? WHERE account_id = ?
set_status(accts, id, status) ==
    [a \in DOMAIN accts |-> IF a = id THEN [accts[a] EXCEPT !.status = status] ELSE accts[a]]

\* ---- models/transaction.py: checks before the connection is opened ----
deposit_check(amount, account) ==
    IF amount <= 0 THEN "InvalidAmount"
    ELSE IF ~account.found THEN "AccountNotFound"
    ELSE IF ~is_active(account) THEN "AccountInactive"
    ELSE "pass"

\* variant: the balance test refuses a withdrawal of the whole balance
withdrawal_check_strict(amount, account) ==
    IF amount <= 0 THEN "InvalidAmount"
    ELSE IF ~account.found THEN "AccountNotFound"
    ELSE IF ~is_active(account) THEN "AccountInactive"
    ELSE IF account.balance <= amount THEN "InsufficientBalance"
    ELSE "pass"

withdrawal_check(amount, account) ==
    IF amount <= 0 THEN "InvalidAmount"
    ELSE IF ~account.found THEN "AccountNotFound"
    ELSE IF ~is_active(account) THEN "AccountInactive"
    ELSE IF account.balance < amount THEN "InsufficientBalance"
    ELSE "pass"

\* variant: the same-account test is missing
transfer_precheck_no_same(from_id, to_id, amount) ==
    IF amount <= 0 THEN "InvalidAmount"
    ELSE "pass"

\* the two checks of create_transfer that precede the reads
transfer_precheck(from_id, to_id, amount) ==
    IF amount <= 0 THEN "InvalidAmount"
    ELSE IF from_id = to_id THEN "SameAccountTransfer"
    ELSE "pass"

\* the checks of create_transfer on the two Account objects it read
transfer_check(amount, from_acc, to_acc) ==
    IF ~from_acc.found \/ ~to_acc.found THEN "AccountNotFound"
    ELSE IF ~is_active(from_acc) \/ ~is_active(to_acc) THEN "AccountInactive"
    ELSE IF from_acc.balance < amount THEN "InsufficientBalance"
    ELSE "pass"

\* variant: every row names its own account as the target
txn_row_targets_self(o) ==
    [account_id |-> o.account_id, transaction_type |-> o.type, amount |-> o.amount,
     target_account_id |-> IF o.type = "transfer" THEN o.target_account_id
                           ELSE o.account_id,
     status |-> "completed", fraud_flag |-> FALSE]

\* the row an INSERT INTO transactions adds (status and fraud_flag as inserted)
txn_row(o) ==
    [account_id |-> o.account_id, transaction_type |-> o.type, amount |-> o.amount,
     target_account_id |-> IF o.type = "transfer" THEN o.target_account_id ELSE NoAccount,
     status |-> "completed", fraud_flag |-> FALSE]

\* UPDATE accounts SET balance = balance + ? WHERE account_id = ?, inside the
\* connection's open transaction
stage_balance(deltas, id, amount) ==
    [a \in Ids |-> IF a = id THEN deltas[a] + amount ELSE deltas[a]]

\* variant: an absolute write, SET balance = ?, of a sum computed from the
\* balance the account was created with
commit_accounts_absolute(accts, deltas) ==
    [a \in DOMAIN accts |->
        IF deltas[a] = 0 THEN accts[a]
        ELSE [accts[a] EXCEPT !.balance = initial[a] + deltas[a]]]

\* conn.commit(): the connection's writes reach the accounts table together
commit_accounts(accts, deltas) ==
    [a \in DOMAIN accts |-> [accts[a] EXCEPT !.balance = @ + deltas[a]]]

\* variant: the inserted row is lost at commit
commit_txns_drops(rows, pending) == rows

\* conn.commit(): the connection's inserted rows reach the transactions table
commit_txns(rows, pending) == rows \o pending

\* ---- state after construction ----
\* Account.create inserts each account with its initial balance and status active
Created(ids, balances) ==
    /\ \E b \in [ids -> balances] :
          /\ accounts = [a \in ids |-> [balance |-> b[a], status |-> "active"]]
          /\ initial = b
    /\ txns = <<>>
    /\ lock = NoCaller
    /\ pc = [c \in Callers |-> "idle"]
    /\ op = [c \in Callers |-> NoOp]
    /\ from_account = [c \in Callers |-> NoRow]
    /\ pendTxn = [c \in Callers |-> <<>>]
    /\ pendBal = [c \in Callers |-> NoDelta]
    /\ result = [c \in Callers |-> "none"]
    /\ review = NoReview
    /\ reader = NoReader
    /\ report = NoReport
    /\ seen = {}

\* two accounts exist, each created with 0 or 1; the third id names no account
Init == Created({"A", "B"}, {0, 1})

\* number of handlers past their checks or still to run them
InFlight == Cardinality({c \in Callers : pc[c] \notin {"idle", "done"}})

\* the run may still take a call: fewer than cap calls have passed their checks
Room(cap) == Len(txns) + InFlight < cap

\* the handler raises ValueError before it opens its connection
Reject(c, kind) ==
    /\ pc' = [pc EXCEPT ![c] = "done"]
    /\ result' = [result EXCEPT ![c] = kind]

\* ---- Transaction.create_deposit ----
\* entry, amount check, Account.get_by_id, existence and status checks
StartDeposit(c, id, amount) ==
    /\ pc[c] = "idle"
    /\ LET account == get_by_id(accounts, id)
              check == deposit_check(amount, account) IN
          /\ op' = [op EXCEPT ![c] = [type |-> "deposit", account_id |-> id,
                                      target_account_id |-> NoAccount, amount |-> amount]]
          /\ IF check = "pass"
             THEN /\ pc' = [pc EXCEPT ![c] = "insert"]
                  /\ UNCHANGED result
             ELSE Reject(c, check)
    /\ UNCHANGED <<accounts, txns, initial, lock, from_account, pendTxn, pendBal>>
    /\ UNCHANGED <<aside, seen>>

\* ---- Transaction.create_withdrawal ----
\* entry, amount check, Account.get_by_id, existence, status and balance checks
StartWithdrawal(c, id, amount) ==
    /\ pc[c] = "idle"
    /\ LET account == get_by_id(accounts, id)
              check == withdrawal_check(amount, account) IN
          /\ op' = [op EXCEPT ![c] = [type |-> "withdrawal", account_id |-> id,
                                      target_account_id |-> NoAccount, amount |-> amount]]
          /\ IF check = "pass"
             THEN /\ pc' = [pc EXCEPT ![c] = "insert"]
                  /\ UNCHANGED result
             ELSE Reject(c, check)
    /\ UNCHANGED <<accounts, txns, initial, lock, from_account, pendTxn, pendBal>>
    /\ UNCHANGED <<aside, seen>>

\* ---- Transaction.create_transfer ----
\* entry, amount and same-account checks, then Account.get_by_id(from_account_id)
StartTransfer(c, from_id, to_id, amount) ==
    /\ pc[c] = "idle"
    /\ LET check == transfer_precheck(from_id, to_id, amount) IN
          /\ op' = [op EXCEPT ![c] = [type |-> "transfer", account_id |-> from_id,
                                      target_account_id |-> to_id, amount |-> amount]]
          /\ IF check = "pass"
             THEN /\ from_account' = [from_account EXCEPT
                                         ![c] = get_by_id(accounts, from_id)]
                  /\ pc' = [pc EXCEPT ![c] = "read_to"]
                  /\ UNCHANGED result
             ELSE /\ Reject(c, check)
                  /\ UNCHANGED from_account
    /\ UNCHANGED <<accounts, txns, initial, lock, pendTxn, pendBal>>
    /\ UNCHANGED <<aside, seen>>

\* Account.get_by_id(to_account_id), then the existence, status and balance checks
ReadTo(c) ==
    /\ pc[c] = "read_to"
    /\ LET to_acc == get_by_id(accounts, op[c].target_account_id)
           check == transfer_check(op[c].amount, from_account[c], to_acc) IN
       /\ from_account' = [from_account EXCEPT ![c] = NoRow]
       /\ IF check = "pass"
          THEN /\ pc' = [pc EXCEPT ![c] = "insert"]
               /\ UNCHANGED result
          ELSE Reject(c, check)
    /\ UNCHANGED <<accounts, txns, initial, lock, op, pendTxn, pendBal>>
    /\ UNCHANGED <<aside, seen>>

\* ---- the write phase shared by the three handlers ----
\* sqlite3.connect and the INSERT INTO transactions: the connection opens its
\* transaction and takes the write lock; the row is not committed yet
Insert(c) ==
    /\ pc[c] = "insert"
    /\ lock = NoCaller
    /\ lock' = c
    /\ pendTxn' = [pendTxn EXCEPT ![c] = <<txn_row(op[c])>>]
    /\ pc' = [pc EXCEPT ![c] = "update"]
    /\ UNCHANGED <<accounts, txns, initial, op, from_account, pendBal, result>>
    /\ UNCHANGED <<aside, seen>>

\* variant: the first UPDATE always debits
first_delta_debit(o) == 0 - o.amount

\* amount the first UPDATE accounts adds to account_id's balance
first_delta(o) == IF o.type = "deposit" THEN o.amount ELSE 0 - o.amount

\* first UPDATE accounts: the account's own balance (credit for a deposit, debit
\* for a withdrawal or a transfer)
UpdateBalance(c) ==
    /\ pc[c] = "update"
    /\ pendBal' = [pendBal EXCEPT ![c] = stage_balance(@, op[c].account_id, first_delta(op[c]))]
    /\ pc' = [pc EXCEPT ![c] = IF op[c].type = "transfer" THEN "update_to" ELSE "commit"]
    /\ UNCHANGED <<accounts, txns, initial, lock, op, from_account, pendTxn, result>>
    /\ UNCHANGED <<aside, seen>>

\* variant: the second UPDATE names the source account again
UpdateTarget_credits_source(c) ==
    /\ pc[c] = "update_to"
    /\ pendBal' = [pendBal EXCEPT ![c] = stage_balance(@, op[c].account_id, op[c].amount)]
    /\ pc' = [pc EXCEPT ![c] = "commit"]
    /\ UNCHANGED <<accounts, txns, initial, lock, op, from_account, pendTxn, result>>
    /\ UNCHANGED <<aside, seen>>

\* second UPDATE accounts of create_transfer: credit the target
UpdateTarget(c) ==
    /\ pc[c] = "update_to"
    /\ pendBal' = [pendBal EXCEPT ![c] = stage_balance(@, op[c].target_account_id, op[c].amount)]
    /\ pc' = [pc EXCEPT ![c] = "commit"]
    /\ UNCHANGED <<accounts, txns, initial, lock, op, from_account, pendTxn, result>>
    /\ UNCHANGED <<aside, seen>>

\* variant: the balance is tested after the commit and the call then reports
\* insufficient balance without undoing its writes
Commit_checks_late(c) ==
    /\ pc[c] = "commit"
    /\ accounts' = commit_accounts(accounts, pendBal[c])
    /\ txns' = commit_txns(txns, pendTxn[c])
    /\ lock' = NoCaller
    /\ pendTxn' = [pendTxn EXCEPT ![c] = <<>>]
    /\ pendBal' = [pendBal EXCEPT ![c] = NoDelta]
    /\ pc' = [pc EXCEPT ![c] = "done"]
    /\ result' = [result EXCEPT ![c] =
                     IF accounts'[op[c].account_id].balance < 0
                     THEN "InsufficientBalance" ELSE "ok"]
    /\ UNCHANGED <<initial, op, from_account>>
    /\ UNCHANGED aside
    /\ seen' = observe(seen, accounts', txns')

\* conn.commit(), finally conn.close(), return the Transaction
Commit(c) ==
    /\ pc[c] = "commit"
    /\ accounts' = commit_accounts(accounts, pendBal[c])
    /\ txns' = commit_txns(txns, pendTxn[c])
    /\ lock' = NoCaller
    /\ pendTxn' = [pendTxn EXCEPT ![c] = <<>>]
    /\ pendBal' = [pendBal EXCEPT ![c] = NoDelta]
    /\ pc' = [pc EXCEPT ![c] = "done"]
    /\ result' = [result EXCEPT ![c] = "ok"]
    /\ UNCHANGED <<initial, op, from_account>>
    /\ UNCHANGED aside
    /\ seen' = observe(seen, accounts', txns')

\* variant: the writes made before the error are committed instead of discarded
Fail_keeps_writes(c) ==
    /\ pc[c] \in {"update", "update_to", "commit"}
    /\ accounts' = commit_accounts(accounts, pendBal[c])
    /\ txns' = commit_txns(txns, pendTxn[c])
    /\ lock' = NoCaller
    /\ pendTxn' = [pendTxn EXCEPT ![c] = <<>>]
    /\ pendBal' = [pendBal EXCEPT ![c] = NoDelta]
    /\ pc' = [pc EXCEPT ![c] = "done"]
    /\ result' = [result EXCEPT ![c] = "Busy"]
    /\ UNCHANGED <<initial, op, from_account>>
    /\ UNCHANGED aside
    /\ seen' = observe(seen, accounts', txns')

\* variant: on the error the handler goes back to its INSERT without closing
\* the connection that holds the write lock
Fail_retries(c) ==
    /\ pc[c] \in {"update", "update_to", "commit"}
    /\ pendTxn' = [pendTxn EXCEPT ![c] = <<>>]
    /\ pendBal' = [pendBal EXCEPT ![c] = NoDelta]
    /\ pc' = [pc EXCEPT ![c] = "insert"]
    /\ UNCHANGED <<accounts, txns, initial, lock, op, from_account, result>>
    /\ UNCHANGED <<aside, seen>>

\* sqlite3.OperationalError after the first write (the database stays busy past
\* the connection's timeout): finally conn.close() discards the open transaction
Fail(c) ==
    /\ pc[c] \in {"update", "update_to", "commit"}
    /\ lock' = NoCaller
    /\ pendTxn' = [pendTxn EXCEPT ![c] = <<>>]
    /\ pendBal' = [pendBal EXCEPT ![c] = NoDelta]
    /\ pc' = [pc EXCEPT ![c] = "done"]
    /\ result' = [result EXCEPT ![c] = "Busy"]
    /\ UNCHANGED <<accounts, txns, initial, op, from_account>>
    /\ UNCHANGED <<aside, seen>>

\* sqlite3.OperationalError on the INSERT: another connection held the write
\* lock for the whole timeout of sqlite3.connect
LockTimeout(c) ==
    /\ pc[c] = "insert"
    /\ lock \notin {NoCaller, c}
    /\ pc' = [pc EXCEPT ![c] = "done"]
    /\ result' = [result EXCEPT ![c] = "Busy"]
    /\ UNCHANGED <<accounts, txns, initial, lock, op, from_account,
                   pendTxn, pendBal>>
    /\ UNCHANGED <<aside, seen>>

\* the route has flashed the outcome; the caller is free for its next request
Return(c) ==
    /\ pc[c] = "done"
    /\ pc' = [pc EXCEPT ![c] = "idle"]
    /\ op' = [op EXCEPT ![c] = NoOp]
    /\ result' = [result EXCEPT ![c] = "none"]
    /\ UNCHANGED <<accounts, txns, initial, lock, from_account, pendTxn, pendBal>>
    /\ UNCHANGED <<aside, seen>>

\* ---- Account.freeze / Account.activate ----
\* UPDATE accounts SET status = 'frozen' and commit, on a connection of its own
Freeze(a) ==
    /\ a \in DOMAIN accounts
    /\ lock = NoCaller
    /\ accounts[a].status = "active"
    /\ accounts' = set_status(accounts, a, "frozen")
    /\ UNCHANGED <<txns, initial, lock, pc, op, from_account,
                   pendTxn, pendBal, result>>
    /\ UNCHANGED aside
    /\ seen' = observe(seen, accounts', txns')

\* UPDATE accounts SET status = 'active' and commit, on a connection of its own
Activate(a) ==
    /\ a \in DOMAIN accounts
    /\ lock = NoCaller
    /\ accounts[a].status = "frozen"
    /\ accounts' = set_status(accounts, a, "active")
    /\ UNCHANGED <<txns, initial, lock, pc, op, from_account,
                   pendTxn, pendBal, result>>
    /\ UNCHANGED aside
    /\ seen' = observe(seen, accounts', txns')

\* ---- concurrent callers: any interleaving of the handlers' steps ----
Next ==
    \/ Room(MaxTxns) /\ \E c \in Callers, id \in Ids, amount \in UnitAmounts :
                            StartDeposit(c, id, amount)
    \/ Room(MaxTxns) /\ \E c \in Callers, id \in Ids, amount \in UnitAmounts :
                            StartWithdrawal(c, id, amount)
    \/ Room(MaxTxns) /\ \E c \in Callers, from_id \in Ids, to_id \in Ids,
                               amount \in UnitAmounts :
                            StartTransfer(c, from_id, to_id, amount)
    \/ \E c \in Callers : ReadTo(c)
    \/ \E c \in Callers : Insert(c)
    \/ \E c \in Callers : UpdateBalance(c)
    \/ \E c \in Callers : UpdateTarget(c)
    \/ \E c \in Callers : Commit(c)
    \/ \E c \in Callers : Fail(c)
    \/ \E c \in Callers : LockTimeout(c)
    \/ \E c \in Callers : Return(c)
    \/ \E a \in Ids : Freeze(a)
    \/ \E a \in Ids : Activate(a)

Spec == Init /\ [][Next]_vars

\* ---- one request at a time: every handler runs to completion alone ----
SeqCaller == "c1"
Quiet == \A c \in Callers : pc[c] = "idle"

SeqNext ==
    \/ Room(SeqMaxTxns) /\ \E id \in Ids, amount \in Amounts :
                               StartDeposit(SeqCaller, id, amount)
    \/ Room(SeqMaxTxns) /\ \E id \in Ids, amount \in Amounts :
                               StartWithdrawal(SeqCaller, id, amount)
    \/ Room(SeqMaxTxns) /\ \E from_id \in Ids, to_id \in Ids, amount \in Amounts :
                               StartTransfer(SeqCaller, from_id, to_id, amount)
    \/ ReadTo(SeqCaller)
    \/ Insert(SeqCaller)
    \/ UpdateBalance(SeqCaller)
    \/ UpdateTarget(SeqCaller)
    \/ Commit(SeqCaller)
    \/ Return(SeqCaller)
    \/ \E a \in Ids : Quiet /\ Freeze(a)
    \/ \E a \in Ids : Quiet /\ Activate(a)

\* the store holds two or three accounts, each created with 0..MaxBal
SeqInit == \E ids \in {{"A", "B"}, {"A", "B", "C"}} : Created(ids, 0..MaxBal)

SeqSpec == SeqInit /\ [][SeqNext]_vars

TypeOK ==
    /\ \A a \in DOMAIN accounts : accounts[a].status \in {"active", "frozen"}
    /\ \A i \in 1..Len(txns) :
          /\ txns[i].transaction_type \in TxnTypes
          /\ txns[i].status \in {"completed", "flagged"}
          /\ txns[i].fraud_flag \in BOOLEAN
    /\ lock \in Callers \cup {NoCaller}

\* ---- fraud review: routes/fraud_dashboard.py ----
\* bound: records the ledger may commit in a run with the fraud analyst
FraudMaxTxns == 2

\* Transaction.get_by_id: SELECT on a fresh connection; None when no row matches
Transaction_get_by_id(rows, id) ==
    IF id \in 1..Len(rows) THEN [found |-> TRUE, row |-> rows[id]] ELSE [found |-> FALSE]

\* variant: the UPDATE has no WHERE clause
flag_fraud_all(rows, id) ==
    [i \in 1..Len(rows) |-> [rows[i] EXCEPT !.fraud_flag = TRUE, !.status = "flagged"]]

\* Transaction.flag_fraud: UPDATE transactions SET fraud_flag = 1,
\* status = 'flagged' WHERE transaction_id = ?
flag_fraud(rows, id) ==
    [i \in 1..Len(rows) |->
        IF i = id THEN [rows[i] EXCEPT !.fraud_flag = TRUE, !.status = "flagged"]
        ELSE rows[i]]

\* the request ends: what the route flashes or raises
ReviewDone(route, id, outcome) ==
    review' = [route |-> route, transaction_id |-> id, pc |-> "done", outcome |-> outcome]

\* route flag_transaction: Transaction.get_by_id, 'Transaction not found.' when
\* it returns None, else on to transaction.flag_fraud()
FlagTransaction(id) ==
    /\ review.pc = "idle"
    /\ IF Transaction_get_by_id(txns, id).found
       THEN review' = [route |-> "flag_transaction", transaction_id |-> id,
                       pc |-> "flag", outcome |-> "none"]
       ELSE ReviewDone("flag_transaction", id, "TransactionNotFound")
    /\ UNCHANGED <<accounts, txns, initial, lock, pc, op, from_account,
                   pendTxn, pendBal, result, reader, report, seen>>

\* route unflag_transaction: Transaction.get_by_id, 'Transaction not found.'
\* when it returns None, else transaction.unflag_fraud(), a method class
\* Transaction does not have: the call raises AttributeError
UnflagTransaction(id) ==
    /\ review.pc = "idle"
    /\ IF Transaction_get_by_id(txns, id).found
       THEN ReviewDone("unflag_transaction", id, "AttributeError")
       ELSE ReviewDone("unflag_transaction", id, "TransactionNotFound")
    /\ UNCHANGED <<accounts, txns, initial, lock, pc, op, from_account,
                   pendTxn, pendBal, result, reader, report, seen>>

\* route action with action = flag_transaction: Transaction.get_by_id, then
\* transaction.flag_fraud() if it returned a row; no message otherwise
ActionFlag(id) ==
    /\ review.pc = "idle"
    /\ IF Transaction_get_by_id(txns, id).found
       THEN review' = [route |-> "action", transaction_id |-> id,
                       pc |-> "flag", outcome |-> "none"]
       ELSE ReviewDone("action", id, "redirect")
    /\ UNCHANGED <<accounts, txns, initial, lock, pc, op, from_account,
                   pendTxn, pendBal, result, reader, report, seen>>

\* Transaction.flag_fraud on a connection of its own: UPDATE and commit
FlagFraud ==
    /\ review.pc = "flag"
    /\ lock = NoCaller
    /\ txns' = flag_fraud(txns, review.transaction_id)
    /\ ReviewDone(review.route, review.transaction_id, "flagged")
    /\ seen' = observe(seen, accounts, txns')
    /\ UNCHANGED <<accounts, initial, lock, pc, op, from_account,
                   pendTxn, pendBal, result, reader, report>>

\* sqlite3.OperationalError on the UPDATE: another connection held the write
\* lock for the whole timeout
FlagFraudBusy ==
    /\ review.pc = "flag"
    /\ lock # NoCaller
    /\ ReviewDone(review.route, review.transaction_id, "Busy")
    /\ UNCHANGED <<accounts, txns, initial, lock, pc, op, from_account,
                   pendTxn, pendBal, result, reader, report, seen>>

\* the response is sent; the analyst is free for the next request
ReviewReturn ==
    /\ review.pc = "done"
    /\ review' = NoReview
    /\ UNCHANGED <<accounts, txns, initial, lock, pc, op, from_account,
                   pendTxn, pendBal, result, reader, report, seen>>

\* ids the analyst may ask for: every position the table can reach, and NoTxn
AskedIds == 0..FraudMaxTxns

\* the analyst works while one ledger caller deposits, withdraws and transfers
FraudNext ==
    \/ Room(FraudMaxTxns) /\ \E id \in Ids : StartDeposit(SeqCaller, id, 1)
    \/ Room(FraudMaxTxns) /\ \E id \in Ids : StartWithdrawal(SeqCaller, id, 1)
    \/ Room(FraudMaxTxns) /\ \E from_id \in Ids, to_id \in Ids :
                                StartTransfer(SeqCaller, from_id, to_id, 1)
    \/ ReadTo(SeqCaller)
    \/ Insert(SeqCaller)
    \/ UpdateBalance(SeqCaller)
    \/ UpdateTarget(SeqCaller)
    \/ Commit(SeqCaller)
    \/ Return(SeqCaller)
    \/ \E id \in AskedIds : FlagTransaction(id)
    \/ \E id \in AskedIds : UnflagTransaction(id)
    \/ \E id \in AskedIds : ActionFlag(id)
    \/ FlagFraud
    \/ FlagFraudBusy
    \/ ReviewReturn

FraudSpec == Init /\ [][FraudNext]_vars

\* ---- termination of the ledger handlers ----
\* bound: calls that may pass their checks in a run checked for termination
LiveMaxTxns == 2

\* the next statement of caller c's handler: each one finishes, or raises when
\* the connection's timeout expires
Step(c) ==
    \/ ReadTo(c)
    \/ Insert(c)
    \/ LockTimeout(c)
    \/ UpdateBalance(c)
    \/ UpdateTarget(c)
    \/ Commit(c)
    \/ Fail(c)

\* two callers deposit, withdraw and transfer between the two accounts, in
\* both directions
LiveNext ==
    \/ Room(LiveMaxTxns) /\ \E c \in Callers, id \in DOMAIN accounts :
                                StartDeposit(c, id, 1)
    \/ Room(LiveMaxTxns) /\ \E c \in Callers, id \in DOMAIN accounts :
                                StartWithdrawal(c, id, 1)
    \/ Room(LiveMaxTxns) /\ \E c \in Callers, from_id \in DOMAIN accounts,
                                to_id \in DOMAIN accounts :
                                StartTransfer(c, from_id, to_id, 1)
    \/ \E c \in Callers : ReadTo(c)
    \/ \E c \in Callers : Insert(c)
    \/ \E c \in Callers : UpdateBalance(c)
    \/ \E c \in Callers : UpdateTarget(c)
    \/ \E c \in Callers : Commit(c)
    \/ \E c \in Callers : Fail(c)
    \/ \E c \in Callers : LockTimeout(c)
    \/ \E c \in Callers : Return(c)

\* every handler thread keeps running: no statement is delayed forever
LiveSpec == Init /\ [][LiveNext]_vars /\ \A c \in Callers : WF_vars(Step(c))

\* ---- risk scoring: services/fraud_service.py ----
\* get_account_risk_score asks Transaction.get_by_account for at most 50 rows
WindowLimit == 50
\* factor 1: 15 points per flagged transaction, at most 40
FlaggedPoints == 15
FlaggedCap == 40
\* factor 2: 10 points per transaction above 10000, at most 30
LargeAmount == 10000
LargePoints == 10
LargeCap == 30
\* factor 3: 20 points when the window holds more than 30 transactions
FrequencyThreshold == 30
FrequencyPoints == 20
\* factor 4: 50 points for a frozen account
FrozenPoints == 50
\* level thresholds and the cap of the returned score
CriticalFrom == 75
HighFrom == 50
MediumFrom == 25
ScoreCap == 100

Min(a, b) == IF a <= b THEN a ELSE b

\* the sets obtained from S by leaving out k of its elements
RECURSIVE DropN(_, _)
DropN(S, k) ==
    IF k = 0 THEN {S} ELSE UNION {{T \ {i} : i \in T} : T \in DropN(S, k - 1)}

\* the rows at the positions of set P, in table order
RECURSIVE RowsAt(_, _, _)
RowsAt(rows, P, n) ==
    IF n = 0 THEN <<>>
    ELSE IF n \in P THEN Append(RowsAt(rows, P, n - 1), rows[n])
    ELSE RowsAt(rows, P, n - 1)

\* Transaction.get_by_account: SELECT ... WHERE account_id = ? OR
\* target_account_id = ? ORDER BY timestamp DESC LIMIT ?.  The handlers insert
\* no timestamp, so the rows tie on NULL and the order does not decide which
\* rows the LIMIT keeps: every choice of limit matching rows is a possible list
\* (given here in table order: the score counts the rows of the list and does
\* not depend on their order)
get_by_account(rows, account_id, limit) ==
    LET M == {i \in 1..Len(rows) :
                 rows[i].account_id = account_id \/ rows[i].target_account_id = account_id}
        excess == IF Cardinality(M) > limit THEN Cardinality(M) - limit ELSE 0
    IN  {RowsAt(rows, P, Len(rows)) : P \in DropN(M, excess)}

\* sum(1 for txn in transactions if txn.fraud_flag)
flagged_count(transactions) ==
    Cardinality({i \in 1..Len(transactions) : transactions[i].fraud_flag})

\* sum(1 for txn in transactions if txn.amount > 10000)
large_transactions(transactions) ==
    Cardinality({i \in 1..Len(transactions) : transactions[i].amount > LargeAmount})

\* variant: the flagged factor has no cap
flagged_points_uncapped(flagged) ==
    IF flagged > 0 THEN flagged * FlaggedPoints ELSE 0

\* variant: the flagged factor counts 10 points per transaction
flagged_points_ten(flagged) ==
    IF flagged > 0 THEN Min(flagged * LargePoints, FlaggedCap) ELSE 0

\* factor 1
flagged_points(flagged) ==
    IF flagged > 0 THEN Min(flagged * FlaggedPoints, FlaggedCap) ELSE 0

\* factor 2
large_points(large) ==
    IF large > 0 THEN Min(large * LargePoints, LargeCap) ELSE 0

\* factor 3
frequency_points(transactions) ==
    IF Len(transactions) > FrequencyThreshold THEN FrequencyPoints ELSE 0

\* factor 4: account and account.status == 'frozen'
frozen_points(account) ==
    IF account.found /\ account.status = "frozen" THEN FrozenPoints ELSE 0

\* variant: the thresholds are exclusive
risk_level_exclusive(risk_score) ==
    IF risk_score > CriticalFrom THEN "critical"
    ELSE IF risk_score > HighFrom THEN "high"
    ELSE IF risk_score > MediumFrom THEN "medium"
    ELSE "low"

\* the level, from the sum of the factors
risk_level(risk_score) ==
    IF risk_score >= CriticalFrom THEN "critical"
    ELSE IF risk_score >= HighFrom THEN "high"
    ELSE IF risk_score >= MediumFrom THEN "medium"
    ELSE "low"

\* variant: the sum of the factors is returned as it is
returned_score_raw(risk_score) == risk_score

\* 'risk_score': min(risk_score, 100)
returned_score(risk_score) == Min(risk_score, ScoreCap)

\* the factor strings, in the order the factors are tested
risk_factors(flagged, large, transactions, account) ==
    (IF flagged > 0 THEN <<"flagged">> ELSE <<>>)
    \o (IF large > 0 THEN <<"large">> ELSE <<>>)
    \o (IF Len(transactions) > FrequencyThreshold THEN <<"frequency">> ELSE <<>>)
    \o (IF account.found /\ account.status = "frozen" THEN <<"frozen">> ELSE <<>>)

\* FraudService.get_account_risk_score, given the list get_by_account returned
\* and the row Account.get_by_id returned (read only when the list is not empty)
get_account_risk_score(transactions, account) ==
    IF Len(transactions) = 0
    THEN [kind |-> "risk", risk_score |-> 0, risk_level |-> "low", factors |-> <<>>]
    ELSE LET flagged == flagged_count(transactions)
             large == large_transactions(transactions)
             risk_score == flagged_points(flagged) + large_points(large)
                           + frequency_points(transactions) + frozen_points(account)
         IN  [kind |-> "risk",
              risk_score |-> returned_score(risk_score),
              risk_level |-> risk_level(risk_score),
              factors |-> risk_factors(flagged, large, transactions, account),
              flagged_count |-> flagged,
              total_transactions |-> Len(transactions)]

\* the read begins: the committed store as it is now
Snapshot == {[accounts |-> accounts, txns |-> txns]}

\* get_account_risk_score(account_id), first statement: the list of
\* transactions; an empty list returns at once
ScoreStart(id) ==
    /\ reader.pc = "idle"
    /\ \E transactions \in get_by_account(txns, id, WindowLimit) :
          /\ reader' = [kind |-> "risk", account_id |-> id, transactions |-> transactions,
                        pc |-> IF Len(transactions) = 0 THEN "done" ELSE "account"]
          /\ report' = IF Len(transactions) = 0
                       THEN get_account_risk_score(transactions, NoRow)
                       ELSE NoReport
    /\ seen' = Snapshot
    /\ UNCHANGED <<accounts, txns, initial, lock, pc, op, from_account,
                   pendTxn, pendBal, result, review>>

\* variant: the engine freezes an account it scores above 0
ScoreFinish_freezes ==
    /\ reader.kind = "risk"
    /\ reader.pc = "account"
    /\ report' = get_account_risk_score(reader.transactions,
                                        get_by_id(accounts, reader.account_id))
    /\ reader' = [reader EXCEPT !.pc = "done"]
    /\ accounts' = IF report'.risk_score > 0
                   THEN set_status(accounts, reader.account_id, "frozen")
                   ELSE accounts
    /\ UNCHANGED <<txns, initial, lock, pc, op, from_account,
                   pendTxn, pendBal, result, review, seen>>

\* the factors, Account.get_by_id for factor 4, the level and the return
ScoreFinish ==
    /\ reader.kind = "risk"
    /\ reader.pc = "account"
    /\ report' = get_account_risk_score(reader.transactions,
                                        get_by_id(accounts, reader.account_id))
    /\ reader' = [reader EXCEPT !.pc = "done"]
    /\ UNCHANGED <<accounts, txns, initial, lock, pc, op, from_account,
                   pendTxn, pendBal, result, review, seen>>

\* the caller has taken the result
ReaderReturn ==
    /\ reader.pc = "done"
    /\ reader' = NoReader
    /\ report' = NoReport
    /\ seen' = {}
    /\ UNCHANGED <<accounts, txns, initial, lock, pc, op, from_account,
                   pendTxn, pendBal, result, review>>

\* bounds of the stores the score is computed on: transactions naming the
\* account, how many of them are flagged, how many are above 10000
MaxHistory == 51
MaxFlagged == 3
MaxLarge == 4

\* n completed deposits into account A: the first f flagged, the last l of
\* 10001, the others of 1 or of 10000
History(n, f, l) ==
    [i \in 1..n |->
        [account_id |-> "A", transaction_type |-> "deposit",
         amount |-> IF i > n - l THEN LargeAmount + 1
                    ELSE IF i % 2 = 0 THEN LargeAmount ELSE 1,
         target_account_id |-> NoAccount,
         status |-> IF i <= f THEN "flagged" ELSE "completed",
         fraud_flag |-> i <= f]]

\* a flagged deposit of 10001 into account B
OtherRow ==
    [account_id |-> "B", transaction_type |-> "deposit", amount |-> LargeAmount + 1,
     target_account_id |-> NoAccount, status |-> "flagged", fraud_flag |-> TRUE]

RECURSIVE SumAmounts(_, _)
SumAmounts(rows, n) == IF n = 0 THEN 0 ELSE SumAmounts(rows, n - 1) + rows[n].amount

\* no handler is running
NoRequests ==
    /\ lock = NoCaller
    /\ pc = [c \in Callers |-> "idle"]
    /\ op = [c \in Callers |-> NoOp]
    /\ from_account = [c \in Callers |-> NoRow]
    /\ pendTxn = [c \in Callers |-> <<>>]
    /\ pendBal = [c \in Callers |-> NoDelta]
    /\ result = [c \in Callers |-> "none"]
    /\ review = NoReview
    /\ reader = NoReader
    /\ report = NoReport
    /\ seen = {}

\* a store the handlers can produce: accounts A and B created empty, deposits
\* into A (and possibly one into B), some flagged by the analyst, A active or
\* frozen
ScoreInit ==
    /\ \E n \in 0..MaxHistory, f \in 0..MaxFlagged, l \in 0..MaxLarge,
          status \in {"active", "frozen"}, other \in BOOLEAN :
          /\ f <= n /\ l <= n
          /\ txns = History(n, f, l) \o (IF other THEN <<OtherRow>> ELSE <<>>)
          /\ accounts =
                [a \in {"A", "B"} |->
                    IF a = "A"
                    THEN [balance |-> SumAmounts(History(n, f, l), n), status |-> status]
                    ELSE [balance |-> IF other THEN OtherRow.amount ELSE 0,
                          status |-> "active"]]
    /\ initial = [a \in {"A", "B"} |-> 0]
    /\ NoRequests

\* ScoreAccount on a store nothing else is writing
ScoreNext ==
    \/ \E id \in Ids : ScoreStart(id)
    \/ ScoreFinish
    \/ ReaderReturn

ScoreSpec == ScoreInit /\ [][ScoreNext]_vars

\* ---- aggregation: services/reporting_service.py, services/compliance_service.py ----
\* the SELECT statements of ReportingService.get_kpi_summary on the accounts
\* and transactions tables, in the order they are executed (the function also
\* counts the users table, which no handler modelled here writes)
KpiQueries ==
    <<"total_transactions", "total_volume", "total_deposits", "total_withdrawals",
      "total_transfers", "active_accounts", "total_accounts", "avg_balance">>

\* the SELECT statements of ComplianceService.get_regulatory_metrics (it also
\* counts the audit_log table, which no handler modelled here writes)
MetricsQueries ==
    <<"large_transactions", "suspicious_activities", "verified_accounts",
      "total_accounts", "frozen_accounts">>

\* ComplianceService.get_threshold_alerts: the metrics, then COUNT(*) of the
\* transactions on a second connection
AlertsQueries == MetricsQueries \o <<"total_txns">>

Queries(kind) ==
    CASE kind = "kpi" -> KpiQueries
      [] kind = "metrics" -> MetricsQueries
      [] kind = "alerts" -> AlertsQueries

\* round(100 * a / b, 2) in hundredths; 0 when b = 0
Percent2(a, b) == IF b = 0 THEN 0 ELSE (2 * 10000 * a + b) \div (2 * b)

\* round(a / b, 2) in hundredths (SQL AVG with COALESCE(..., 0))
Average2(a, b) == IF b = 0 THEN 0 ELSE (2 * 100 * a + b) \div (2 * b)

\* SUM(amount) over the rows at the positions of P
SumOver(rows, P) == SumAmounts(RowsAt(rows, P, Len(rows)), Cardinality(P))

RECURSIVE SumBalances(_, _)
SumBalances(accts, S) ==
    IF S = {} THEN 0
    ELSE LET a == CHOOSE x \in S : TRUE IN accts[a].balance + SumBalances(accts, S \ {a})

\* one SELECT against the committed tables
select(q, accts, rows) ==
    LET all == 1..Len(rows)
        active == {a \in DOMAIN accts : accts[a].status = "active"}
    IN  CASE q \in {"total_transactions", "total_txns"} -> Len(rows)
          [] q = "total_volume" -> SumOver(rows, {i \in all : rows[i].status = "completed"})
          [] q = "total_deposits" ->
                SumOver(rows, {i \in all : rows[i].transaction_type = "deposit"})
          [] q = "total_withdrawals" ->
                SumOver(rows, {i \in all : rows[i].transaction_type = "withdrawal"})
          [] q = "total_transfers" ->
                SumOver(rows, {i \in all : rows[i].transaction_type = "transfer"})
          [] q \in {"active_accounts", "verified_accounts"} -> Cardinality(active)
          [] q = "total_accounts" -> Cardinality(DOMAIN accts)
          [] q = "avg_balance" -> Average2(SumBalances(accts, active), Cardinality(active))
          [] q = "large_transactions" ->
                Cardinality({i \in all : rows[i].amount > LargeAmount
                                         /\ rows[i].status = "completed"})
          [] q = "suspicious_activities" -> Cardinality({i \in all : rows[i].fraud_flag})
          [] q = "frozen_accounts" ->
                Cardinality({a \in DOMAIN accts : accts[a].status = "frozen"})

\* the dict get_kpi_summary returns, from the values its SELECTs read
kpi_result(v) ==
    [kind |-> "kpi",
     total_transactions |-> v["total_transactions"],
     total_volume |-> v["total_volume"],
     total_deposits |-> v["total_deposits"],
     total_withdrawals |-> v["total_withdrawals"],
     total_transfers |-> v["total_transfers"],
     active_accounts |-> v["active_accounts"],
     total_accounts |-> v["total_accounts"],
     avg_balance |-> v["avg_balance"],
     net_flow |-> v["total_deposits"] - v["total_withdrawals"]]

\* the dict get_regulatory_metrics returns
metrics_result(v) ==
    [kind |-> "metrics",
     large_transactions |-> v["large_transactions"],
     suspicious_activities |-> v["suspicious_activities"],
     verification_rate |-> Percent2(v["verified_accounts"], v["total_accounts"]),
     verified_accounts |-> v["verified_accounts"],
     total_accounts |-> v["total_accounts"],
     frozen_accounts |-> v["frozen_accounts"]]

\* x / y * 100 > percent, the rate taken as 0 when y = 0 (not rounded)
RateAbove(x, y, percent) == y > 0 /\ 100 * x > percent * y

\* the list get_threshold_alerts returns: the verification rate is tested as
\* get_regulatory_metrics rounded it, the two other rates as computed (the
\* values are kept in hundredths of a percent)
alerts_result(v) ==
    LET metrics == metrics_result(v)
        frozen_rate == Percent2(metrics.frozen_accounts, metrics.total_accounts)
        suspicious_rate == Percent2(metrics.suspicious_activities, v["total_txns"])
    IN  [kind |-> "alerts",
         alerts |->
            (IF metrics.verification_rate < 9000
             THEN <<[severity |-> "warning", category |-> "Account Verification",
                     value |-> metrics.verification_rate]>>
             ELSE <<>>)
            \o (IF RateAbove(metrics.frozen_accounts, metrics.total_accounts, 10)
                THEN <<[severity |-> "high", category |-> "Frozen Accounts",
                        value |-> frozen_rate]>>
                ELSE <<>>)
            \o (IF RateAbove(metrics.suspicious_activities, v["total_txns"], 5)
                THEN <<[severity |-> "critical", category |-> "Suspicious Activity",
                        value |-> suspicious_rate]>>
                ELSE <<>>)]

result_of(kind, v) ==
    CASE kind = "kpi" -> kpi_result(v)
      [] kind = "metrics" -> metrics_result(v)
      [] kind = "alerts" -> alerts_result(v)

\* the function is entered and its first SELECT runs
ReadStart(kind) ==
    /\ reader.pc = "idle"
    /\ LET q == Queries(kind)[1] IN
          reader' = [kind |-> kind, pc |-> "select", vals |-> q :> select(q, accounts, txns)]
    /\ seen' = Snapshot
    /\ UNCHANGED <<accounts, txns, initial, lock, pc, op, from_account,
                   pendTxn, pendBal, result, review, report>>

\* the next SELECT runs, outside any transaction: it reads the store as
\* committed now; after the last one the function returns its result
Select ==
    /\ reader.pc = "select"
    /\ LET n == Cardinality(DOMAIN reader.vals)
           q == Queries(reader.kind)[n + 1]
           v == reader.vals @@ (q :> select(q, accounts, txns))
       IN  IF n + 1 = Len(Queries(reader.kind))
           THEN /\ reader' = [reader EXCEPT !.pc = "done", !.vals = v]
                /\ report' = result_of(reader.kind, v)
           ELSE /\ reader' = [reader EXCEPT !.vals = v]
                /\ UNCHANGED report
    /\ UNCHANGED <<accounts, txns, initial, lock, pc, op, from_account,
                   pendTxn, pendBal, result, review, seen>>

\* bound: records the ledger may commit in a run with the read-only services
ReadMaxTxns == 1

\* the read-only services run while one ledger caller deposits and transfers
\* and accounts are frozen
ReadNext ==
    \/ Room(ReadMaxTxns) /\ \E id \in DOMAIN accounts : StartDeposit(SeqCaller, id, 1)
    \/ Room(ReadMaxTxns) /\ \E from_id \in DOMAIN accounts, to_id \in DOMAIN accounts :
                               StartTransfer(SeqCaller, from_id, to_id, 1)
    \/ ReadTo(SeqCaller)
    \/ Insert(SeqCaller)
    \/ UpdateBalance(SeqCaller)
    \/ UpdateTarget(SeqCaller)
    \/ Commit(SeqCaller)
    \/ Return(SeqCaller)
    \/ \E a \in Ids : Freeze(a)
    \/ \E kind \in {"kpi", "metrics", "alerts"} : ReadStart(kind)
    \/ Select
    \/ \E id \in DOMAIN accounts : ScoreStart(id)
    \/ ScoreFinish
    \/ ReaderReturn

ReadSpec == Init /\ [][ReadNext]_vars

\* ---- ScoreAccount asked twice: routes/fraud_dashboard.py account_risk ----
\* bound: records the ledger may commit in a run with repeated scoring
RepeatMaxTxns == 1

\* the route is requested again for the same account once the first result
\* is there: get_account_risk_score runs its first statement a second time;
\* the first result is kept for comparison
ScoreAgain ==
    /\ reader.kind = "risk"
    /\ reader.pc = "done"
    /\ "first" \notin DOMAIN reader
    /\ \E transactions \in get_by_account(txns, reader.account_id, WindowLimit) :
          /\ reader' = [kind |-> "risk", account_id |-> reader.account_id,
                        transactions |-> transactions,
                        pc |-> IF Len(transactions) = 0 THEN "done" ELSE "account",
                        first |-> report]
          /\ report' = IF Len(transactions) = 0
                       THEN get_account_risk_score(transactions, NoRow)
                       ELSE NoReport
    /\ seen' = seen \cup Snapshot
    /\ UNCHANGED <<accounts, txns, initial, lock, pc, op, from_account,
                   pendTxn, pendBal, result, review>>

\* the score is asked for, and asked for again, while one ledger caller
\* deposits, the analyst flags and accounts are frozen (the analyst flags a
\* record once it is committed, and no other write is under way then)
RepeatNext ==
    \/ Room(RepeatMaxTxns) /\ \E id \in DOMAIN accounts : StartDeposit(SeqCaller, id, 1)
    \/ Insert(SeqCaller)
    \/ UpdateBalance(SeqCaller)
    \/ Commit(SeqCaller)
    \/ Return(SeqCaller)
    \/ \E a \in DOMAIN accounts : Freeze(a)
    \/ \E id \in 0..RepeatMaxTxns : FlagTransaction(id)
    \/ FlagFraud
    \/ ReviewReturn
    \/ \E id \in Ids : ScoreStart(id)
    \/ ScoreFinish
    \/ ScoreAgain
    \/ ReaderReturn

\* two accounts exist, created empty
RepeatInit == Created({"A", "B"}, {0})

RepeatSpec == RepeatInit /\ [][RepeatNext]_vars

\* ---- compliance score: services/compliance_service.py ----
Max(a, b) == IF a >= b THEN a ELSE b

\* the loop over the alerts: the score after the first n of them (in
\* hundredths of a point, as the rates)
RECURSIVE after_alerts(_, _)
after_alerts(alerts, n) ==
    IF n = 0 THEN 10000
    ELSE LET score == after_alerts(alerts, n - 1)
             severity == alerts[n].severity
         IN  IF severity = "critical" THEN score - 2000
             ELSE IF severity = "high" THEN score - 1000
             ELSE IF severity = "warning" THEN score - 500
             ELSE score

\* variant: the score is returned as computed
calculate_compliance_score_unclamped(metrics, alerts) ==
    LET score == after_alerts(alerts, Len(alerts))
    IN  IF metrics.verification_rate < 9500
        THEN score - (9500 - metrics.verification_rate)
        ELSE score

\* ComplianceService.calculate_compliance_score
calculate_compliance_score(metrics, alerts) ==
    LET score == after_alerts(alerts, Len(alerts))
        final == IF metrics.verification_rate < 9500
                 THEN score - (9500 - metrics.verification_rate)
                 ELSE score
    IN  Max(0, Min(10000, final))

\* ComplianceService.get_compliance_dashboard_stats on a store nothing is
\* writing: the metrics, the alerts, and the score of the two
get_compliance_dashboard_stats(accts, rows) ==
    LET v == [q \in {AlertsQueries[i] : i \in 1..Len(AlertsQueries)} |->
                 select(q, accts, rows)]
        metrics == metrics_result(v)
        alerts == alerts_result(v).alerts
    IN  [kind |-> "compliance",
         metrics |-> metrics,
         alerts |-> alerts,
         alert_count |-> Len(alerts),
         critical_alerts |->
            Cardinality({i \in 1..Len(alerts) : alerts[i].severity = "critical"}),
         compliance_score |-> calculate_compliance_score(metrics, alerts)]

\* the compliance dashboard is requested
DashboardStats ==
    /\ reader.pc = "idle"
    /\ LET stats == get_compliance_dashboard_stats(accounts, txns) IN
          /\ reader' = [kind |-> "compliance", pc |-> "done",
                        metrics |-> stats.metrics, alerts |-> stats.alerts]
          /\ report' = stats
    /\ seen' = Snapshot
    /\ UNCHANGED <<accounts, txns, initial, lock, pc, op, from_account,
                   pendTxn, pendBal, result, review>>

\* bound: alerts in a list handed to calculate_compliance_score
MaxAlerts == 3

Severities == {"critical", "high", "warning"}

\* lists of at most MaxAlerts alerts, any severities in any order
AlertLists ==
    UNION {[1..n -> [severity : Severities]] : n \in 0..MaxAlerts}

\* verification rates from 0 to 100 percent in hundredths: every tenth whole
\* percent, the rates around 90 and 95, and rates round(..., 2) leaves with a
\* fraction
Rates == {1000 * p : p \in 0..10} \cup {3333, 6667, 8999, 9499, 9500, 9501}

\* calculate_compliance_score is called on metrics and alerts of the caller's
CalculateScore(verification_rate, alerts) ==
    /\ reader.pc = "idle"
    /\ LET metrics == [verification_rate |-> verification_rate] IN
          /\ reader' = [kind |-> "compliance", pc |-> "done",
                        metrics |-> metrics, alerts |-> alerts]
          /\ report' = [kind |-> "compliance",
                        compliance_score |-> calculate_compliance_score(metrics, alerts)]
    /\ seen' = Snapshot
    /\ UNCHANGED <<accounts, txns, initial, lock, pc, op, from_account,
                   pendTxn, pendBal, result, review>>

\* a deposit of 1 into an account, flagged by the analyst or not
DepositRow(id, flagged) ==
    [account_id |-> id, transaction_type |-> "deposit", amount |-> 1,
     target_account_id |-> NoAccount,
     status |-> IF flagged THEN "flagged" ELSE "completed", fraud_flag |-> flagged]

\* a store the handlers can produce: none, some or all of the accounts
\* created empty, possibly one deposit into A, possibly flagged, then some of
\* the accounts frozen
StoreInit ==
    /\ \E ids \in SUBSET Ids, frozen \in SUBSET Ids, n \in 0..1, flagged \in BOOLEAN :
          /\ frozen \subseteq ids
          /\ n = 1 => "A" \in ids
          /\ n = 0 => ~flagged
          /\ txns = [i \in 1..n |-> DepositRow("A", flagged)]
          /\ accounts =
                [a \in ids |->
                    [balance |-> IF a = "A" THEN n ELSE 0,
                     status |-> IF a \in frozen THEN "frozen" ELSE "active"]]
          /\ initial = [a \in ids |-> 0]
    /\ NoRequests

ComplianceNext ==
    \/ DashboardStats
    \/ \E verification_rate \in Rates, alerts \in AlertLists :
          CalculateScore(verification_rate, alerts)
    \/ ReaderReturn

ComplianceSpec == StoreInit /\ [][ComplianceNext]_vars

\* ---- threshold alerts on larger stores ----
\* bounds: accounts in a small store and in a large one, and transactions
FewAccounts == 10
ManyAccounts == 2009
MaxAlertRows == 21

\* a store the handlers can produce: accounts 1..total created empty (the
\* ids are numbers here), deposits of 1 into account 1, possibly one of them
\* flagged, then the accounts 1..frozen frozen (about a tenth of a large store)
AlertsInit ==
    /\ \E total \in (0..FewAccounts) \cup {ManyAccounts},
          n \in 0..MaxAlertRows, flagged \in BOOLEAN :
          /\ n = 0 => ~flagged
          /\ n > 0 => total > 0
          /\ \E frozen \in 0..total :
                /\ total = ManyAccounts =>
                      frozen \in (total \div 10 - 2) .. (total \div 10 + 2)
                /\ txns = [i \in 1..n |-> DepositRow(1, flagged /\ i = 1)]
                /\ accounts =
                      [a \in 1..total |->
                          [balance |-> IF a = 1 THEN n ELSE 0,
                           status |-> IF a <= frozen THEN "frozen" ELSE "active"]]
                /\ initial = [a \in 1..total |-> 0]
    /\ NoRequests

\* get_threshold_alerts on a store nothing is writing
AlertsNext ==
    \/ ReadStart("alerts")
    \/ Select
    \/ ReaderReturn

AlertsSpec == AlertsInit /\ [][AlertsNext]_vars

\* ---- top transactions: services/reporting_service.py ----
\* bounds: records the ledger may commit in a run with the report, and the
\* largest amount it moves
TopMaxTxns == 3
TopMaxAmt == 2

NoFilter == "none"

\* the rows SELECT ... [WHERE transaction_type = ?] ORDER BY amount DESC
\* LIMIT ? may return, as the list of their ids: the statement orders by
\* amount alone, so rows of equal amount come in an order SQL leaves open
top_ids(rows, limit, transaction_type) ==
    LET matching == {i \in 1..Len(rows) :
                        transaction_type = NoFilter
                        \/ rows[i].transaction_type = transaction_type}
        n == Cardinality(matching)
        orders == {o \in [1..n -> matching] :
                      /\ \A i, j \in 1..n : i # j => o[i] # o[j]
                      /\ \A i, j \in 1..n : i < j => rows[o[i]].amount >= rows[o[j]].amount}
    IN  {SubSeq(o, 1, Min(limit, n)) : o \in orders}

\* ReportingService.get_top_transactions: the dicts built from the rows (the
\* amounts are whole units, which round(amount, 2) returns as they are)
get_top_transactions(rows, ids) ==
    [k \in 1..Len(ids) |->
        [transaction_id |-> ids[k],
         account_id |-> rows[ids[k]].account_id,
         transaction_type |-> rows[ids[k]].transaction_type,
         amount |-> rows[ids[k]].amount]]

\* the report is requested: one SELECT on a connection of its own
TopTransactions(limit, transaction_type) ==
    /\ reader.pc = "idle"
    /\ \E ids \in top_ids(txns, limit, transaction_type) :
          report' = [kind |-> "top", transactions |-> get_top_transactions(txns, ids)]
    /\ reader' = [kind |-> "top", pc |-> "done", limit |-> limit,
                  transaction_type |-> transaction_type]
    /\ seen' = Snapshot
    /\ UNCHANGED <<accounts, txns, initial, lock, pc, op, from_account,
                   pendTxn, pendBal, result, review>>

\* the report is requested while one ledger caller deposits and transfers
TopNext ==
    \/ Room(TopMaxTxns) /\ \E id \in DOMAIN accounts, amount \in 1..TopMaxAmt :
                              StartDeposit(SeqCaller, id, amount)
    \/ Room(TopMaxTxns) /\ \E from_id \in DOMAIN accounts, to_id \in DOMAIN accounts :
                              StartTransfer(SeqCaller, from_id, to_id, 1)
    \/ ReadTo(SeqCaller)
    \/ Insert(SeqCaller)
    \/ UpdateBalance(SeqCaller)
    \/ UpdateTarget(SeqCaller)
    \/ Commit(SeqCaller)
    \/ Return(SeqCaller)
    \/ \E limit \in 1..TopMaxTxns, transaction_type \in {NoFilter, "deposit", "transfer"} :
          TopTransactions(limit, transaction_type)
    \/ ReaderReturn

TopSpec == Init /\ [][TopNext]_vars

\* ---- the store adapter: services/sqlite_adapter.py ----
\* bound: records the ledger may commit in a run with the adapter's caller
AdapterMaxTxns == 1

\* UPDATE accounts SET balance = ? WHERE account_id = ?
update_account_balance(accts, account_id, new_balance) ==
    [a \in DOMAIN accts |->
        IF a = account_id THEN [accts[a] EXCEPT !.balance = new_balance] ELSE accts[a]]

\* UPDATE accounts SET status = ? WHERE account_id = ? (freeze_account,
\* activate_account)
update_account_status(accts, account_id, status) ==
    [a \in DOMAIN accts |->
        IF a = account_id THEN [accts[a] EXCEPT !.status = status] ELSE accts[a]]

\* UPDATE transactions SET fraud_flag = ? WHERE transaction_id = ?
update_transaction(rows, transaction_id, fraud_flag) ==
    [i \in 1..Len(rows) |->
        IF i = transaction_id THEN [rows[i] EXCEPT !.fraud_flag = fraud_flag] ELSE rows[i]]

AdapterCalls == {"update_account_balance", "freeze_account", "activate_account",
                 "update_transaction"}

\* what a call returns: True after execute and commit, whatever number of
\* rows the UPDATE matched; False from the except clause, reached when the
\* write lock stayed with another connection
returns(call, id, ok) ==
    /\ reader' = [kind |-> "store", pc |-> "done", call |-> call, id |-> id]
    /\ report' = [kind |-> "store", ok |-> ok]
    /\ UNCHANGED <<initial, lock, pc, op, from_account, pendTxn, pendBal, result,
                   review, seen>>

UpdateAccountBalance(account_id, new_balance) ==
    /\ reader.pc = "idle"
    /\ IF lock = NoCaller
       THEN /\ accounts' = update_account_balance(accounts, account_id, new_balance)
            /\ returns("update_account_balance", account_id, TRUE)
       ELSE /\ UNCHANGED accounts
            /\ returns("update_account_balance", account_id, FALSE)
    /\ UNCHANGED txns

FreezeAccount(account_id) ==
    /\ reader.pc = "idle"
    /\ IF lock = NoCaller
       THEN /\ accounts' = update_account_status(accounts, account_id, "frozen")
            /\ returns("freeze_account", account_id, TRUE)
       ELSE /\ UNCHANGED accounts
            /\ returns("freeze_account", account_id, FALSE)
    /\ UNCHANGED txns

ActivateAccount(account_id) ==
    /\ reader.pc = "idle"
    /\ IF lock = NoCaller
       THEN /\ accounts' = update_account_status(accounts, account_id, "active")
            /\ returns("activate_account", account_id, TRUE)
       ELSE /\ UNCHANGED accounts
            /\ returns("activate_account", account_id, FALSE)
    /\ UNCHANGED txns

\* update_transaction(transaction_id, {'fraud_flag': ...})
UpdateTransaction(transaction_id, fraud_flag) ==
    /\ reader.pc = "idle"
    /\ IF lock = NoCaller
       THEN /\ txns' = update_transaction(txns, transaction_id, fraud_flag)
            /\ returns("update_transaction", transaction_id, TRUE)
       ELSE /\ UNCHANGED txns
            /\ returns("update_transaction", transaction_id, FALSE)
    /\ UNCHANGED accounts

\* the adapter is called, with ids of records and ids of none, while one
\* ledger caller deposits
AdapterNext ==
    \/ Room(AdapterMaxTxns) /\ \E id \in DOMAIN accounts : StartDeposit(SeqCaller, id, 1)
    \/ Insert(SeqCaller)
    \/ UpdateBalance(SeqCaller)
    \/ Commit(SeqCaller)
    \/ Return(SeqCaller)
    \/ \E account_id \in Ids, new_balance \in 0..MaxBal :
          UpdateAccountBalance(account_id, new_balance)
    \/ \E account_id \in Ids : FreezeAccount(account_id)
    \/ \E account_id \in Ids : ActivateAccount(account_id)
    \/ \E transaction_id \in 0..AdapterMaxTxns, fraud_flag \in BOOLEAN :
          UpdateTransaction(transaction_id, fraud_flag)
    \/ ReaderReturn

AdapterSpec == Init /\ [][AdapterNext]_vars

\* ---- concurrent deposits ----
\* bounds: deposits that may pass their checks in a run, and the largest
\* amount deposited
DepositMaxTxns == 2
DepositMaxAmt == 2

\* every caller deposits, into either account, at any time
DepositNext ==
    \/ Room(DepositMaxTxns) /\ \E c \in Callers, id \in DOMAIN accounts,
                                  amount \in 1..DepositMaxAmt :
                                  StartDeposit(c, id, amount)
    \/ \E c \in Callers : Insert(c)
    \/ \E c \in Callers : LockTimeout(c)
    \/ \E c \in Callers : UpdateBalance(c)
    \/ \E c \in Callers : Commit(c)
    \/ \E c \in Callers : Fail(c)
    \/ \E c \in Callers : Return(c)

DepositSpec == Init /\ [][DepositNext]_vars

\* ---- the records of the transactions table ----
\* bound: records the ledger may commit in a run with the analyst and freezes
RecordMaxTxns == 2

\* amounts a caller may ask for: negative, zero, positive
AskedAmounts == {0 - 1, 0, 1}

\* one caller asks for deposits, withdrawals and transfers of any amount
\* between any ids while the analyst flags and accounts are frozen and
\* reactivated
RecordNext ==
    \/ Room(RecordMaxTxns) /\ \E id \in Ids, amount \in AskedAmounts :
                                 StartDeposit(SeqCaller, id, amount)
    \/ Room(RecordMaxTxns) /\ \E id \in Ids, amount \in AskedAmounts :
                                 StartWithdrawal(SeqCaller, id, amount)
    \/ Room(RecordMaxTxns) /\ \E from_id \in Ids, to_id \in Ids, amount \in AskedAmounts :
                                 StartTransfer(SeqCaller, from_id, to_id, amount)
    \/ ReadTo(SeqCaller)
    \/ Insert(SeqCaller)
    \/ UpdateBalance(SeqCaller)
    \/ UpdateTarget(SeqCaller)
    \/ Commit(SeqCaller)
    \/ Return(SeqCaller)
    \/ \E id \in 0..RecordMaxTxns : FlagTransaction(id)
    \/ FlagFraud
    \/ FlagFraudBusy
    \/ ReviewReturn
    \/ \E a \in Ids : Freeze(a)
    \/ \E a \in Ids : Activate(a)

RecordSpec == Init /\ [][RecordNext]_vars

\* ---- the per-account listings ----
\* bound: records the ledger may commit in a run with the listings
ListMaxTxns == 2

\* the implementations of the per-account listing
Listings == {"Transaction.get_by_account", "SQLiteAdapter.get_transactions_by_account"}

\* the rows the WHERE clause of an implementation selects:
\* account_id = ? OR target_account_id = ? in Transaction.get_by_account,
\* account_id = ? in SQLiteAdapter.get_transactions_by_account
selected(listing, rows, account_id) ==
    {i \in 1..Len(rows) :
        \/ rows[i].account_id = account_id
        \/ /\ listing = "Transaction.get_by_account"
           /\ rows[i].target_account_id = account_id}

\* ORDER BY timestamp DESC LIMIT ? over rows whose timestamp is NULL, every
\* one of them: the clause orders nothing, so any limit of the selected rows
\* in any order is a possible list (as the list of their ids)
listed(P, limit) ==
    LET n == Min(limit, Cardinality(P))
    IN  {o \in [1..n -> P] : \A i, j \in 1..n : i # j => o[i] # o[j]}

\* the objects built from the rows fetched
fetched(rows, ids) ==
    [k \in 1..Len(ids) |->
        [transaction_id |-> ids[k],
         account_id |-> rows[ids[k]].account_id,
         transaction_type |-> rows[ids[k]].transaction_type,
         amount |-> rows[ids[k]].amount,
         target_account_id |-> rows[ids[k]].target_account_id,
         fraud_flag |-> rows[ids[k]].fraud_flag]]

\* the listing of an account is asked from one of the implementations
ListByAccount(listing, account_id, limit) ==
    /\ reader.pc = "idle"
    /\ \E ids \in listed(selected(listing, txns, account_id), limit) :
          report' = [kind |-> "listing", transactions |-> fetched(txns, ids)]
    /\ reader' = [kind |-> "listing", pc |-> "done", listing |-> listing,
                  account_id |-> account_id, limit |-> limit]
    /\ seen' = Snapshot
    /\ UNCHANGED <<accounts, txns, initial, lock, pc, op, from_account,
                   pendTxn, pendBal, result, review>>

\* listings and scores are asked for while one ledger caller deposits and
\* transfers and the analyst flags
ListNext ==
    \/ Room(ListMaxTxns) /\ \E id \in DOMAIN accounts : StartDeposit(SeqCaller, id, 1)
    \/ Room(ListMaxTxns) /\ \E from_id \in DOMAIN accounts, to_id \in DOMAIN accounts :
                               StartTransfer(SeqCaller, from_id, to_id, 1)
    \/ ReadTo(SeqCaller)
    \/ Insert(SeqCaller)
    \/ UpdateBalance(SeqCaller)
    \/ UpdateTarget(SeqCaller)
    \/ Commit(SeqCaller)
    \/ Return(SeqCaller)
    \/ \E id \in 0..ListMaxTxns : FlagTransaction(id)
    \/ FlagFraud
    \/ FlagFraudBusy
    \/ ReviewReturn
    \/ \E id \in DOMAIN accounts : ScoreStart(id)
    \/ ScoreFinish
    \/ \E listing \in Listings, id \in DOMAIN accounts, limit \in {1, WindowLimit} :
          ListByAccount(listing, id, limit)
    \/ ReaderReturn

ListSpec == Init /\ [][ListNext]_vars

\* ---- claims ----

\* C1: in every committed state every account whose status is active has a
\* balance >= 0
C1_ActiveBalanceNonNegative ==
    \A a \in DOMAIN accounts :
        accounts[a].status = "active" => accounts[a].balance >= 0

\* callers whose call returned a Transaction
Succeeded == {c \in Callers : result[c] = "ok"}

\* every caller has finished a withdrawal of the same amount w > 0 from the same
\* account a, these calls are the only ones that committed anything, the
\* callers together asked for more than the account was created with, and no
\* call ended on a busy database or a frozen account
SameWithdrawalsDone(a, w) ==
    /\ w > 0
    /\ \A c \in Callers :
          /\ pc[c] = "done"
          /\ op[c].type = "withdrawal"
          /\ op[c].account_id = a
          /\ op[c].amount = w
          /\ result[c] \notin {"Busy", "AccountInactive"}
    /\ Len(txns) = Cardinality(Succeeded)
    /\ Cardinality(Callers) * w > initial[a]

\* C2: when N concurrent callers each withdraw w from one active account with
\* balance b and N*w > b, exactly floor(b/w) succeed, the others fail with
\* insufficient balance, and the final balance is b - floor(b/w)*w >= 0
C2_ConcurrentWithdrawals ==
    \A a \in DOMAIN accounts, w \in Amounts :
        SameWithdrawalsDone(a, w) =>
            /\ Cardinality(Succeeded) = initial[a] \div w
            /\ \A c \in Callers \ Succeeded : result[c] = "InsufficientBalance"
            /\ accounts[a].balance = initial[a] - (initial[a] \div w) * w
            /\ accounts[a].balance >= 0

\* a step in which caller c's handler returns or raises
Completes(c) == pc[c] # "done" /\ pc'[c] = "done"

\* the committed store is left as it was
StoreUnchanged == accounts' = accounts /\ txns' = txns

\* the row a completed call of type t on account a (target b) for amount m leaves
RowOf(t, a, b, m) ==
    [account_id |-> a, transaction_type |-> t, amount |-> m, target_account_id |-> b,
     status |-> "completed", fraud_flag |-> FALSE]

\* C3: every step of a transfer attempt either leaves the committed store as it
\* was or makes the transfer record, the source debit and the target credit
\* visible together, also when the attempt fails after its first write
C3_TransferAllOrNothing ==
    [][\A c \in Callers :
          (op[c].type = "transfer" /\ pc[c] \notin {"idle", "done"} /\ pc'[c] # pc[c]) =>
             LET src == op[c].account_id
                 tgt == op[c].target_account_id
                 t == op[c].amount IN
             \/ StoreUnchanged
             \/ /\ txns' = Append(txns, RowOf("transfer", src, tgt, t))
                /\ accounts' = [accounts EXCEPT ![src].balance = @ - t,
                                                ![tgt].balance = @ + t]]_vars

\* a transfer has committed while another transfer holds its source debit uncommitted
C3_Witness ==
    \E c \in Callers, d \in Callers :
        /\ op[c].type = "transfer" /\ result[c] = "ok"
        /\ op[d].type = "transfer" /\ pc[d] = "update_to"
        /\ pendBal[d][op[d].account_id] < 0

\* what a committed row adds to the balance of account a
Effect(row, a) ==
    IF row.transaction_type = "deposit"
    THEN (IF row.account_id = a THEN row.amount ELSE 0)
    ELSE IF row.transaction_type = "withdrawal"
    THEN (IF row.account_id = a THEN 0 - row.amount ELSE 0)
    ELSE (IF row.account_id = a THEN 0 - row.amount ELSE 0)
         + (IF row.target_account_id = a THEN row.amount ELSE 0)

RECURSIVE SumEffects(_, _, _)
SumEffects(rows, a, n) ==
    IF n = 0 THEN 0 ELSE SumEffects(rows, a, n - 1) + Effect(rows[n], a)

\* C4: each account's committed balance equals its initial balance plus the
\* deposits naming it, minus its withdrawals, minus the transfers out of it,
\* plus the transfers into it
C4_BalanceMatchesRecords ==
    \A a \in DOMAIN accounts :
        accounts[a].balance = initial[a] + SumEffects(txns, a, Len(txns))

\* two records are committed, one of them a transfer
C4_Witness ==
    /\ Len(txns) >= 2
    /\ \E i \in 1..Len(txns), j \in 1..Len(txns) :
          /\ txns[i].transaction_type = "transfer"
          /\ txns[j].transaction_type # "transfer"

\* C5: a deposit of d > 0 into an existing active account with balance b
\* succeeds, leaves the balance at b + d, appends exactly one completed deposit
\* record for that account and changes nothing else
C5_Deposit ==
    [][\A c \in Callers :
          LET a == op'[c].account_id
              d == op'[c].amount IN
          (/\ Completes(c)
           /\ op'[c].type = "deposit"
           /\ a \in DOMAIN accounts
           /\ accounts[a].status = "active"
           /\ d > 0) =>
             /\ result'[c] = "ok"
             /\ accounts' = [accounts EXCEPT ![a].balance = @ + d]
             /\ txns' = Append(txns, RowOf("deposit", a, NoAccount, d))]_vars

\* a deposit has returned its Transaction
C5_Witness ==
    \E c \in Callers :
        /\ pc[c] = "done" /\ op[c].type = "deposit" /\ result[c] = "ok"
        /\ accounts[op[c].account_id].balance > initial[op[c].account_id]

\* C6: on an existing active account with balance b a withdrawal of w with
\* b >= w > 0 succeeds and leaves b - w; a withdrawal of w > b is rejected as
\* insufficient balance and leaves the store as it was
C6_Withdrawal ==
    [][\A c \in Callers :
          LET a == op'[c].account_id
              w == op'[c].amount IN
          (/\ Completes(c)
           /\ op'[c].type = "withdrawal"
           /\ a \in DOMAIN accounts
           /\ accounts[a].status = "active"
           /\ w > 0) =>
             IF w <= accounts[a].balance
             THEN /\ result'[c] = "ok"
                  /\ accounts' = [accounts EXCEPT ![a].balance = @ - w]
                  /\ txns' = Append(txns, RowOf("withdrawal", a, NoAccount, w))
             ELSE /\ result'[c] = "InsufficientBalance"
                  /\ StoreUnchanged]_vars

\* a withdrawal of the whole balance has succeeded and left 0
C6_Witness ==
    \E c \in Callers :
        /\ pc[c] = "done" /\ op[c].type = "withdrawal" /\ result[c] = "ok"
        /\ accounts[op[c].account_id].balance = 0

C8_SameAccountRejected ==
    [][\A c \in Callers :
          (/\ op'[c].type = "transfer"
           /\ op'[c].account_id = op'[c].target_account_id
           /\ pc'[c] # pc[c]) =>
             /\ pc'[c] = "done"
             /\ result'[c] \in Rejections
             /\ (op'[c].amount > 0 => result'[c] = "SameAccountTransfer")
             /\ pendTxn'[c] = <<>>
             /\ StoreUnchanged]_vars

\* a transfer of a positive amount from an id that names no account to itself
\* has been rejected
C8_Witness ==
    \E c \in Callers :
        /\ pc[c] = "done" /\ op[c].type = "transfer"
        /\ op[c].account_id = op[c].target_account_id
        /\ op[c].account_id \notin DOMAIN accounts
        /\ op[c].amount > 0
        /\ result[c] = "SameAccountTransfer"

\* accounts a call names
Involved(o) ==
    IF o.type = "transfer" THEN {o.account_id, o.target_account_id} ELSE {o.account_id}

\* a call that names a frozen account of the store
NamesFrozen(o) ==
    \E a \in Involved(o) : a \in DOMAIN accounts /\ accounts[a].status = "frozen"

\* a call no check before the status check rejects
ReachesStatusCheck(o) ==
    /\ o.amount > 0
    /\ Involved(o) \subseteq DOMAIN accounts
    /\ (o.type = "transfer" => o.account_id # o.target_account_id)

\* C9 as stated: while A is frozen every deposit, withdrawal and transfer
\* naming A is rejected as account-inactive and leaves the store unchanged
C9_FrozenRejectsAsInactive ==
    [][\A c \in Callers :
          (Completes(c) /\ NamesFrozen(op'[c])) =>
             /\ result'[c] = "AccountInactive"
             /\ StoreUnchanged]_vars

\* C9 (amended): while A is frozen every deposit, withdrawal and transfer
\* naming A is rejected and leaves the store unchanged; the rejection is
\* account-inactive unless an earlier check (amount, same account, account not
\* found) rejects the call; once all accounts a call names are active again
\* the call is accepted
C9_FrozenRejects ==
    [][\A c \in Callers :
          /\ (Completes(c) /\ NamesFrozen(op'[c])) =>
                /\ result'[c] \in Rejections
                /\ (ReachesStatusCheck(op'[c]) => result'[c] = "AccountInactive")
                /\ StoreUnchanged
          /\ (/\ Completes(c)
              /\ ReachesStatusCheck(op'[c])
              /\ ~NamesFrozen(op'[c])
              /\ (op'[c].type # "deposit"
                    => accounts[op'[c].account_id].balance >= op'[c].amount)) =>
                result'[c] = "ok"]_vars

\* a call naming a frozen account has been rejected as account-inactive
C9_Witness ==
    \E c \in Callers :
        /\ pc[c] = "done"
        /\ NamesFrozen(op[c])
        /\ result[c] = "AccountInactive"

\* C10: a call rejected for its amount, a missing account, an inactive
\* account, an insufficient balance or a same-account transfer has written
\* nothing and leaves every balance, every status and the records unchanged
C10_RejectionChangesNothing ==
    [][\A c \in Callers :
          (Completes(c) /\ result'[c] \in Rejections) =>
             /\ StoreUnchanged
             /\ pendTxn[c] = <<>> /\ pendBal[c] = NoDelta
             /\ pendTxn'[c] = <<>> /\ pendBal'[c] = NoDelta
             /\ lock # c /\ lock' = lock]_vars

\* one call was rejected for its balance and another for a frozen account,
\* after a record had been committed
C10_Witness ==
    /\ Len(txns) > 0
    /\ \E c \in Callers, d \in Callers :
          /\ pc[c] = "done" /\ result[c] = "InsufficientBalance"
          /\ pc[d] = "done" /\ result[d] = "AccountInactive"

\* a step in which the analyst's request ends
ReviewCompletes == review.pc # "done" /\ review'.pc = "done"

\* C11: FlagFraud on an existing transaction sets its fraud_flag to true and
\* its status to flagged and leaves every account, every other transaction and
\* the flagged transaction's type, amount, source and target unchanged
C11_FlagFraud ==
    [][(ReviewCompletes /\ review'.outcome = "flagged") =>
          LET id == review'.transaction_id IN
          /\ review'.route \in {"flag_transaction", "action"}
          /\ id \in 1..Len(txns)
          /\ Len(txns') = Len(txns)
          /\ txns'[id].fraud_flag = TRUE
          /\ txns'[id].status = "flagged"
          /\ txns'[id].transaction_type = txns[id].transaction_type
          /\ txns'[id].amount = txns[id].amount
          /\ txns'[id].account_id = txns[id].account_id
          /\ txns'[id].target_account_id = txns[id].target_account_id
          /\ \A i \in 1..Len(txns) : i # id => txns'[i] = txns[i]
          /\ accounts' = accounts]_vars

\* a transfer has been flagged next to a record that is not flagged
C11_Witness ==
    /\ review.pc = "done" /\ review.outcome = "flagged"
    /\ Len(txns) >= 2
    /\ txns[review.transaction_id].transaction_type = "transfer"
    /\ txns[review.transaction_id].fraud_flag
    /\ \E j \in 1..Len(txns) : ~txns[j].fraud_flag

\* C12: an UnflagFraud request for an existing flagged transaction ends with
\* the transaction's fraud_flag false and its status completed, and no balance
\* touched
C12_UnflagFraud ==
    [][(/\ ReviewCompletes
        /\ review'.route = "unflag_transaction"
        /\ review'.transaction_id \in 1..Len(txns)
        /\ txns[review'.transaction_id].fraud_flag) =>
          /\ ~txns'[review'.transaction_id].fraud_flag
          /\ txns'[review'.transaction_id].status = "completed"
          /\ accounts' = accounts]_vars

\* C13: a FlagFraud or UnflagFraud request whose id names no transaction ends
\* reporting transaction-not-found and changes no transaction and no account,
\* on every route that flags
C13_MissingTransactionReported ==
    [][(/\ review.pc = "idle" /\ review'.pc # "idle"
        /\ review'.route \in FlagRoutes
        /\ ~Transaction_get_by_id(txns, review'.transaction_id).found) =>
          /\ review'.pc = "done"
          /\ review'.outcome = "TransactionNotFound"
          /\ StoreUnchanged]_vars

\* outcomes a ledger call can end with
Outcomes == {"ok", "Busy"} \cup Rejections

\* C14: under any interleaving every invoked deposit, withdrawal or transfer
\* eventually returns a created transaction or a failure, and a caller waiting
\* for write access ends with Busy unless it obtains the access
C14_EveryCallReturns ==
    \A c \in Callers :
        (pc[c] \notin {"idle", "done"}) ~> (pc[c] = "done" /\ result[c] \in Outcomes)

\* a caller waits for write access while a transfer in the opposite direction
\* holds the write lock
C14_Witness ==
    \E c \in Callers, d \in Callers :
        /\ pc[c] = "insert" /\ op[c].type = "transfer"
        /\ lock = d /\ op[d].type = "transfer"
        /\ op[d].account_id = op[c].target_account_id
        /\ op[d].target_account_id = op[c].account_id

\* ScoreAccount has returned
Scored == reader.kind = "risk" /\ reader.pc = "done"

\* the factor strings of the result
Factors == {report.factors[i] : i \in 1..Len(report.factors)}

\* flagged transactions, and transactions above 10,000, in the window read
WindowFlagged ==
    Cardinality({i \in 1..Len(reader.transactions) : reader.transactions[i].fraud_flag})
WindowLarge ==
    Cardinality({i \in 1..Len(reader.transactions) : reader.transactions[i].amount > 10000})

\* the scored account is frozen
ScoredFrozen ==
    /\ reader.account_id \in DOMAIN accounts
    /\ accounts[reader.account_id].status = "frozen"

\* C16: the score ScoreAccount returns is an integer in [0, 100] for every
\* window of 0 to 50 transactions and every status, also when the factors sum
\* to more than 100
C16_ScoreInRange ==
    Scored => (report.risk_score \in Int /\ 0 <= report.risk_score /\ report.risk_score <= 100)

\* all four factors are triggered (40 + 30 + 20 + 50) and the score is 100
C16_Witness ==
    /\ Scored
    /\ Factors = {"flagged", "large", "frequency", "frozen"}
    /\ WindowFlagged >= 3 /\ WindowLarge >= 3
    /\ report.risk_score = 100

\* points of the factors other than the flagged one that the result records
OtherPoints ==
    (IF "large" \in Factors THEN Min(10 * WindowLarge, 30) ELSE 0)
    + (IF "frequency" \in Factors THEN 20 ELSE 0)
    + (IF "frozen" \in Factors THEN 50 ELSE 0)

\* C17: the flagged factor contributes min(15 * f, 40) for f flagged
\* transactions in the window, and contributes nothing and records no factor
\* string when f = 0
C17_FlaggedFactor ==
    Scored =>
        /\ ("flagged" \in Factors) <=> (WindowFlagged > 0)
        /\ report.risk_score = Min(100, Min(15 * WindowFlagged, 40) + OtherPoints)

\* three flagged transactions alone: the cap cuts 45 down to 40
C17_Witness ==
    /\ Scored
    /\ WindowFlagged = 3
    /\ Factors = {"flagged"}
    /\ report.risk_score = 40

\* an active account whose window holds exactly 3 flagged transactions, no
\* amount above 10,000 and at most 30 transactions
ThreeFlaggedClean ==
    /\ Scored
    /\ reader.account_id \in DOMAIN accounts
    /\ accounts[reader.account_id].status = "active"
    /\ WindowFlagged = 3
    /\ WindowLarge = 0
    /\ Len(reader.transactions) <= 30

\* C18 as stated: such an account receives 45 points from the flag factor
\* alone, and its level is high exactly when the total reaches 50
C18_ThreeFlaggedScores45 ==
    ThreeFlaggedClean =>
        /\ report.risk_score = 45
        /\ (report.risk_level = "high") <=> (report.risk_score >= 50)

\* C18 (amended): such an account receives 40 points from the flag factor
\* alone (45 capped at 40); the total stays below 50, so its level is medium
\* and not high
C18_ThreeFlaggedScores40 ==
    ThreeFlaggedClean =>
        /\ report.risk_score = 40
        /\ Factors = {"flagged"}
        /\ report.risk_level = "medium"
        /\ (report.risk_level = "high") <=> (report.risk_score >= 50)

\* such an account has been scored, with clean transactions next to the three
C18_Witness ==
    /\ ThreeFlaggedClean
    /\ Len(reader.transactions) > 3

\* C19: a frozen account gets the flat 50 points and the frozen factor for
\* every window, the empty one included: it never scores below 50 and its
\* level is never low or medium
C19_FrozenScoresAtLeast50 ==
    (Scored /\ ScoredFrozen) =>
        /\ report.risk_score >= 50
        /\ "frozen" \in Factors
        /\ report.risk_level \notin {"low", "medium"}

\* C20: the level is determined by the returned score: critical from 75, high
\* from 50, medium from 25, low below
C20_LevelFromScore ==
    Scored =>
        report.risk_level =
            (IF report.risk_score >= 75 THEN "critical"
             ELSE IF report.risk_score >= 50 THEN "high"
             ELSE IF report.risk_score >= 25 THEN "medium"
             ELSE "low")

\* a score of exactly 50 has been returned with level high
C20_Witness ==
    /\ Scored
    /\ report.risk_score = 50
    /\ report.risk_level = "high"

\* the values the running computation would read if all its SELECTs ran on
\* the one store s
ValuesOn(kind, s) ==
    [q \in {Queries(kind)[i] : i \in 1..Len(Queries(kind))} |-> select(q, s.accounts, s.txns)]

\* the results the computation can return when it reads only the store s
ResultsOn(s) ==
    IF reader.kind = "risk"
    THEN {get_account_risk_score(w, get_by_id(s.accounts, reader.account_id)) :
             w \in get_by_account(s.txns, reader.account_id, WindowLimit)}
    ELSE {result_of(reader.kind, ValuesOn(reader.kind, s))}

\* C15: every result of the risk score, the KPI summary, the compliance
\* metrics and the threshold alerts, computed while ledger operations run,
\* equals the result computed on one single committed state of the store that
\* existed while the computation ran
C15_ResultFromOneState ==
    reader.pc = "done" => \E s \in seen : report \in ResultsOn(s)

\* the second result of a repeated request is there, and no ledger, flag or
\* freeze operation has committed since the first request began
AskedTwiceUndisturbed ==
    /\ reader.kind = "risk"
    /\ reader.pc = "done"
    /\ "first" \in DOMAIN reader
    /\ seen = Snapshot

\* a step of get_account_risk_score
ScoreStep == reader' # reader /\ reader'.kind = "risk"

CountOf(alerts, severity) ==
    Cardinality({i \in 1..Len(alerts) : alerts[i].severity = severity})

\* 100 minus 20 per critical, 10 per high and 5 per warning alert, minus
\* (95 - verification_rate) when the rate is below 95, in hundredths
ScoreFormula(verification_rate, alerts) ==
    10000 - 2000 * CountOf(alerts, "critical") - 1000 * CountOf(alerts, "high")
          - 500 * CountOf(alerts, "warning")
          - (IF verification_rate < 9500 THEN 9500 - verification_rate ELSE 0)

Clamped(x) == IF x < 0 THEN 0 ELSE IF x > 10000 THEN 10000 ELSE x

\* C22: ComplianceScore is the clamp to [0,100] of 100 minus 20 per critical,
\* 10 per high, 5 per warning alert, minus (95 - verification_rate) when the
\* rate is below 95, for every list of alerts and every rate, also on a store
\* with no accounts
C22_ComplianceScore ==
    report.kind = "compliance" =>
        report.compliance_score =
            Clamped(ScoreFormula(reader.metrics.verification_rate, reader.alerts))

\* the dashboard was computed on a store with no accounts: the rate is 0, the
\* warning alert is raised, and 100 - 5 - 95 leaves 0
C22_Witness ==
    /\ report.kind = "compliance"
    /\ DOMAIN accounts = {}
    /\ "alert_count" \in DOMAIN report
    /\ reader.metrics.verification_rate = 0
    /\ report.alert_count = 1
    /\ report.compliance_score = 0

\* x / y * 100 < percent, the rate taken as 0 when y = 0 as ComplianceMetrics
\* reports it
RateBelow(x, y, percent) == IF y = 0 THEN 0 < percent ELSE 100 * x < percent * y

\* the severities of the alerts returned
SeveritiesOf(alerts) == {alerts[i].severity : i \in 1..Len(alerts)}

\* accounts of a status, flagged transactions
CountStatus(status) == Cardinality({a \in DOMAIN accounts : accounts[a].status = status})
CountFlagged == Cardinality({i \in 1..Len(txns) : txns[i].fraud_flag})

\* C23: ThresholdAlerts returns a warning alert exactly when active accounts /
\* total accounts is below 90%, a high alert exactly when the frozen-account
\* rate is above 10%, a critical alert exactly when flagged / total
\* transactions is above 5%, and no other alert, on every store
C23_ThresholdAlerts ==
    (report.kind = "alerts" /\ seen = Snapshot) =>
        LET severities == SeveritiesOf(report.alerts) IN
            /\ "warning" \in severities <=>
                  RateBelow(CountStatus("active"), Cardinality(DOMAIN accounts), 90)
            /\ "high" \in severities <=>
                  RateAbove(CountStatus("frozen"), Cardinality(DOMAIN accounts), 10)
            /\ "critical" \in severities <=> RateAbove(CountFlagged, Len(txns), 5)
            /\ severities \subseteq {"warning", "high", "critical"}
            /\ Len(report.alerts) = Cardinality(severities)

\* the transactions table the report was read from
ReadRows == (CHOOSE store \in seen : TRUE).txns

\* the ids of a returned list
IdsOf(list) == [k \in 1..Len(list) |-> list[k].transaction_id]

\* the rows of the table a filter lets through
Matching(rows, transaction_type) ==
    {i \in 1..Len(rows) :
        transaction_type = NoFilter \/ rows[i].transaction_type = transaction_type}

\* row i comes before row j in the order the report is specified to use:
\* larger amount first, rows of equal amount in creation order
Before(rows, i, j) ==
    \/ rows[i].amount > rows[j].amount
    \/ rows[i].amount = rows[j].amount /\ i < j

\* the list holds the limit largest matching rows, largest first, with no
\* word on rows of equal amount
LargestFirst(rows, ids, limit, transaction_type) ==
    LET matching == Matching(rows, transaction_type) IN
        /\ Len(ids) = Min(limit, Cardinality(matching))
        /\ \A k \in 1..Len(ids) : ids[k] \in matching
        /\ \A k, l \in 1..Len(ids) : k < l =>
              ids[k] # ids[l] /\ rows[ids[k]].amount >= rows[ids[l]].amount
        /\ \A i \in matching :
              (\A k \in 1..Len(ids) : ids[k] # i) =>
                  \A k \in 1..Len(ids) : rows[ids[k]].amount >= rows[i].amount

\* C24: TopTransactions(limit, typeFilter) returns the limit transactions with
\* the largest amounts (of the type, when a filter is given) in descending
\* amount order, transactions of equal amount in creation order, so the list is
\* determined by the store
C24_TopTransactions ==
    report.kind = "top" =>
        LET rows == ReadRows
            ids == IdsOf(report.transactions)
            matching == Matching(rows, reader.transaction_type)
        IN  /\ LargestFirst(rows, ids, reader.limit, reader.transaction_type)
            /\ \A k, l \in 1..Len(ids) : k < l => Before(rows, ids[k], ids[l])
            /\ \A i \in matching :
                  (\A k \in 1..Len(ids) : ids[k] # i) =>
                      \A k \in 1..Len(ids) : Before(rows, ids[k], i)

\* the step is a call of the adapter with an id that names no record
CallOnNoRecord ==
    /\ reader.pc = "idle"
    /\ reader'.kind = "store"
    /\ IF reader'.call = "update_transaction"
       THEN reader'.id \notin 1..Len(txns)
       ELSE reader'.id \notin DOMAIN accounts

\* C25: UpdateBalance, SetStatus (freeze, activate) and UpdateTransaction
\* called with an id that names no record report failure, not success, and
\* leave the store unchanged
C25_MissingRecordReported ==
    [][CallOnNoRecord => (report'.ok = FALSE /\ UNCHANGED <<accounts, txns>>)]_vars

\* every caller's deposit of d into account a has succeeded, and nothing else
\* was committed
AllDeposited(a, d) ==
    /\ \A c \in Callers :
          /\ pc[c] = "done"
          /\ op[c].type = "deposit"
          /\ op[c].account_id = a
          /\ op[c].amount = d
          /\ result[c] = "ok"
    /\ Len(txns) = Cardinality(Callers)

\* the deposit records of d into account a
DepositsOf(a, d) ==
    {i \in 1..Len(txns) :
        /\ txns[i].transaction_type = "deposit"
        /\ txns[i].account_id = a
        /\ txns[i].amount = d}

\* C26: when N callers each deposit d > 0 into an active account with balance
\* b, under any interleaving, and all succeed, the final balance is b + N*d
\* and exactly N deposit records exist for the account
C26_NoLostDeposit ==
    \A a \in DOMAIN accounts, d \in 1..DepositMaxAmt :
        AllDeposited(a, d) =>
            /\ accounts[a].balance = initial[a] + Cardinality(Callers) * d
            /\ Cardinality(DepositsOf(a, d)) = Cardinality(Callers)

\* both callers deposited 2 into A, created with 1, and A holds 5
C26_Witness ==
    /\ AllDeposited("A", 2)
    /\ initial["A"] = 1
    /\ accounts["A"].balance = 5

\* a record is well formed: positive amount, a target exactly when it is a
\* transfer, and then another account than the source
WellFormed(row) ==
    /\ row.amount > 0
    /\ row.target_account_id # NoAccount <=> row.transaction_type = "transfer"
    /\ row.transaction_type = "transfer" => row.target_account_id # row.account_id

\* the step leaves type, amount, source and target of every existing record
\* as they are
RecordsKept ==
    \A i \in 1..Len(txns) :
        /\ i <= Len(txns')
        /\ txns'[i].transaction_type = txns[i].transaction_type
        /\ txns'[i].amount = txns[i].amount
        /\ txns'[i].account_id = txns[i].account_id
        /\ txns'[i].target_account_id = txns[i].target_account_id

\* C27: in every reachable state every record has amount > 0, has a target
\* exactly when its type is transfer, and a transfer's target differs from its
\* source; no ledger, flag or freeze operation changes type, amount, source or
\* target of an existing record
C27_RecordsWellFormed ==
    /\ [](\A i \in 1..Len(txns) : WellFormed(txns[i]))
    /\ [][RecordsKept]_vars

\* a transfer and a deposit are on record, the transfer flagged since, its
\* source frozen since
C27_Witness ==
    /\ Len(txns) = 2
    /\ txns[1].transaction_type = "transfer"
    /\ txns[1].fraud_flag
    /\ txns[2].transaction_type = "deposit"
    /\ accounts[txns[1].account_id].status = "frozen"

\* the records of the table read in which the account is source or target
Naming(rows, account_id) ==
    {i \in 1..Len(rows) :
        rows[i].account_id = account_id \/ rows[i].target_account_id = account_id}

\* the list holds records naming the account, as many as the limit allows
HoldsHistory(list, rows, account_id, limit) ==
    /\ Len(list) = Min(limit, Cardinality(Naming(rows, account_id)))
    /\ \A k \in 1..Len(list) :
          list[k].account_id = account_id \/ list[k].target_account_id = account_id

\* C28: the window ScoreAccount scores for an account holds the transactions
\* in which the account is source or target (at most 50), so a flagged transfer
\* from A to B counts for A and for B, and every implementation of the
\* per-account listing returns that window
C28_WindowNamesSourceOrTarget ==
    /\ (reader.kind = "risk" /\ reader.pc = "done" /\ seen = Snapshot) =>
          /\ HoldsHistory(reader.transactions, txns, reader.account_id, WindowLimit)
          /\ Len(reader.transactions) > 0 =>
                report.flagged_count =
                    Cardinality({i \in Naming(txns, reader.account_id) : txns[i].fraud_flag})
    /\ reader.kind = "listing" =>
          HoldsHistory(report.transactions, ReadRows, reader.account_id, reader.limit)

\* the ids of a set, largest first
RECURSIVE Descending(_)
Descending(S) ==
    IF S = {} THEN <<>>
    ELSE LET m == CHOOSE x \in S : \A y \in S : y <= x IN <<m>> \o Descending(S \ {m})

\* C29: the per-account listing with limit L returns the L most recently
\* committed transactions of the account, latest first, also when their
\* timestamps are equal, so the risk window is the 50 latest commits
C29_LatestFirst ==
    (reader.kind = "listing" /\ reader.listing = "Transaction.get_by_account") =>
        LET history == Descending(Naming(ReadRows, reader.account_id))
        IN  IdsOf(report.transactions)
               = SubSeq(history, 1, Min(reader.limit, Len(history)))

\* the accounts whose balance the record's handler changes
Touched(row) ==
    {row.account_id} \cup
        (IF row.transaction_type = "transfer" THEN {row.target_account_id} ELSE {})

\* C30: under any interleaving of Freeze with ledger operations no deposit,
\* withdrawal or transfer commits a record or a balance change for an account
\* while the account is frozen: a call that passed its status check before the
\* freeze does not commit after it
C30_NoCommitWhileFrozen ==
    [][Len(txns') > Len(txns) =>
          \A a \in Touched(txns'[Len(txns')]) : accounts[a].status # "frozen"]_vars

====
